---------------------------- MODULE Spec2Model ----------------------------
(***************************************************************************)
(* A model of the edge caching proxy of packages/cdn: the key validator,   *)
(* the cache-key normaliser, the cache store adapter, the origin gateway   *)
(* and the GET / PUT handlers of /images/*.                                *)
(*                                                                         *)
(* Strings are sequences of one-character strings.  A Cache-Control value  *)
(* is a sequence of lexemes (words, "=", " ", digits); the lexemes are     *)
(* chosen so that none of the substrings the code searches for can         *)
(* straddle two of them.                                                   *)
(***************************************************************************)
EXTENDS Integers, Sequences, FiniteSets, TLC

\* ------------------------------------------------------------------ bounds
MaxReqs == 2        \* concurrent requests of the read path
MaxKeyLen == 3      \* characters of a key
MaxParams == 3      \* query parameters of a URL
MaxCCLen == 4
MaxBodyLen == 17       \* lexemes of a Cache-Control value

\* --------------------------------------------------------- string helpers
Lower == {"a","b","c","d","e","f","g","h","i","j","k","l","m",
          "n","o","p","q","r","s","t","u","v","w","x","y","z"}
Upper == {"A","B","C","D","E","F","G","H","I","J","K","L","M",
          "N","O","P","Q","R","S","T","U","V","W","X","Y","Z"}
Digit == {"0","1","2","3","4","5","6","7","8","9"}

\* String.prototype.includes
includes(s, sub) ==
    \E i \in 1..(Len(s) - Len(sub) + 1) : SubSeq(s, i, i + Len(sub) - 1) = sub

\* String.prototype.startsWith
startsWith(s, p) == Len(p) <= Len(s) /\ SubSeq(s, 1, Len(p)) = p

\* All sequences over S of length at most n
SeqUpTo(S, n) == UNION {[1..k -> S] : k \in 0..n}

\* ------------------------------------------------------- Key Validator
\* The mount prefix "/images/" of the route, one token of a path.
MOUNT == "/images/"

NULL == <<"null">>

\* extractKeyFromPath: strip the mount prefix when the path starts with it;
\* an empty result is null.
extractKeyFromPath(path) ==
    LET key == IF Len(path) > 0 /\ path[1] = MOUNT THEN Tail(path) ELSE path
    IN  IF key = <<>> THEN NULL ELSE key

\* /^[a-zA-Z0-9\-_\/.]+$/
safePattern(key) ==
    /\ Len(key) >= 1
    /\ \A i \in 1..Len(key) : key[i] \in Lower \cup Upper \cup Digit \cup {"-", "_", "/", "."}

\* validateKey without its ".." test
validateKeyNoDotDot(key) ==
    IF key = <<>> \/ startsWith(key, <<"/">>) \/ includes(key, <<"/", "/">>)
    THEN FALSE
    ELSE safePattern(key)

validateKey(key) ==
    IF key = <<>> \/ includes(key, <<".", ".">>) \/ startsWith(key, <<"/">>)
        \/ includes(key, <<"/", "/">>)
    THEN FALSE
    ELSE safePattern(key)

\* The handlers' test with validateKey left out
keyRejectedAbsentOnly(key) == key = NULL

\* `!key || !validateKey(key)` of both handlers
keyRejected(key) == key = NULL \/ ~validateKey(key)


\* --------------------------------------------------- Cache Key Normalizer
\* A request URL is [host, path, query]: the query as the raw (name, value)
\* pairs of the query string, in order.  Raw values may be percent- or
\* plus-encoded; URLSearchParams holds them decoded.
Names == {"a", "b"}
RawValues == {"1", "+", "%20"}

\* application/x-www-form-urlencoded parsing of one value
decodeValue(raw) == IF raw \in {"+", "%20"} THEN " " ELSE raw
\* application/x-www-form-urlencoded serialisation of one value
encodeValue(v) == IF v = " " THEN "+" ELSE v

\* url.searchParams: the decoded pairs, in the order of the query string
searchParams(url) ==
    [i \in 1..Len(url.query) |->
        [name |-> url.query[i].name, value |-> decodeValue(url.query[i].value)]]

\* params.toString() / the URL's search after the appends: the pairs
\* serialised in order ("" when there is none)
serialize(params) ==
    [i \in 1..Len(params) |->
        [name |-> params[i].name, value |-> encodeValue(params[i].value)]]

\* Code-unit order of the parameter names of the model ("a" < "b")
NameRank(n) == CASE n = "a" -> 1 [] n = "b" -> 2

\* The comparator of createCacheKey: on the names alone
compareEntries(x, y) ==
    IF NameRank(x.name) < NameRank(y.name) THEN -1
    ELSE IF NameRank(x.name) > NameRank(y.name) THEN 1
    ELSE 0

\* Array.prototype.sort with that comparator: a stable sort (ES2019), here by
\* insertion: x goes behind every element that does not compare greater.
RECURSIVE insertEntry(_, _)
insertEntry(sorted, x) ==
    IF sorted = <<>> THEN <<x>>
    ELSE IF compareEntries(sorted[Len(sorted)], x) <= 0 THEN Append(sorted, x)
    ELSE Append(insertEntry(SubSeq(sorted, 1, Len(sorted) - 1), x), sorted[Len(sorted)])

RECURSIVE sortEntries(_)
sortEntries(entries) ==
    IF entries = <<>> THEN <<>>
    ELSE insertEntry(sortEntries(SubSeq(entries, 1, Len(entries) - 1)), entries[Len(entries)])

\* createCacheKey without its sort
createCacheKeyUnsorted(url) ==
    [host |-> url.host, path |-> url.path, search |-> serialize(searchParams(url))]

\* createCacheKey: the URL with its search rebuilt from the sorted pairs.
\* The record stands for normalized.toString(): host and path untouched,
\* then "?" and the serialised pairs (no "?" when there is none).
createCacheKey(url) ==
    [host |-> url.host, path |-> url.path,
     search |-> serialize(sortEntries(searchParams(url)))]

\* ---------------------------------------------------- Cache Store Adapter
\* Lexemes of a Cache-Control value
CCLex == {"No-Store", "Private", "public", "Max-Age", "=", " ", "0", "6"}

\* String.prototype.toLowerCase, lexeme by lexeme
lowerLex(l) ==
    CASE l = "No-Store" -> "no-store"
      [] l = "Private" -> "private"
      [] l = "Max-Age" -> "max-age"
      [] OTHER -> l
toLowerCase(v) == [i \in 1..Len(v) |-> lowerLex(v[i])]

\* Whether a lexeme starts / ends with a word character [A-Za-z0-9_]
\* (every lexeme of the model but "=" and " " does both)
wordLex(l) == l \notin {"=", " "}

\* /\bmax-age\s*=\s*0\b/.test(v)
maxAgeZeroPattern(v) ==
    \E i \in 1..Len(v) :
        /\ v[i] = "max-age"
        /\ (i = 1 \/ ~wordLex(v[i - 1]))
        /\ \E j \in (i + 1)..Len(v) : \E k \in (j + 1)..Len(v) :
            /\ \A m \in (i + 1)..(j - 1) : v[m] = " "
            /\ v[j] = "="
            /\ \A m \in (j + 1)..(k - 1) : v[m] = " "
            /\ v[k] = "0"
            /\ (k = Len(v) \/ ~wordLex(v[k + 1]))

\* Headers: a function from the lower-cased names present to their values.
headersGet(headers, name) == IF name \in DOMAIN headers THEN headers[name] ELSE NULL
headersSet(headers, name, value) == (name :> value) @@ headers

\* putCache without its "private" test
putCacheNoPrivate(response) ==
    LET cacheControl == headersGet(response.headers, "cache-control")
        normalizedCacheControl == toLowerCase(cacheControl)
    IN  IF cacheControl = NULL \/ cacheControl = <<>> THEN FALSE
        ELSE ~(\/ \E i \in 1..Len(normalizedCacheControl) : normalizedCacheControl[i] = "no-store"
               \/ maxAgeZeroPattern(normalizedCacheControl))

\* putCache up to its cache.put: TRUE when the response is to be written
putCacheWrites(response) ==
    LET cacheControl == headersGet(response.headers, "cache-control")
        normalizedCacheControl == toLowerCase(cacheControl)
    IN  IF cacheControl = NULL \/ cacheControl = <<>> THEN FALSE
        ELSE ~(\/ \E i \in 1..Len(normalizedCacheControl) : normalizedCacheControl[i] = "no-store"
               \/ \E i \in 1..Len(normalizedCacheControl) : normalizedCacheControl[i] = "private"
               \/ maxAgeZeroPattern(normalizedCacheControl))

\* --------------------------------------------------------- Origin Gateway
\* encodeURIComponent, one character: the unreserved characters stay, every
\* other character of the model becomes its %XX escape (one token).
unreservedChar(c) == c \in Lower \cup Upper \cup Digit \cup {"-", "_", ".", "!", "~", "*", "'", "(", ")"}
encodeChar(c) ==
    IF unreservedChar(c) THEN c
    ELSE CASE c = "/" -> "%2F"
           [] c = "\\" -> "%5C"
           [] c = "@" -> "%40"
           [] c = "%" -> "%25"
           [] c = " " -> "%20"
           [] c = ":" -> "%3A"
encodeURIComponent(s) == [i \in 1..Len(s) |-> encodeChar(s[i])]

\* .replace(/%2F/g, "/")
restoreSlashes(s) == [i \in 1..Len(s) |-> IF s[i] = "%2F" THEN "/" ELSE s[i]]

\* The URL parser of a special scheme reads "\" as "/".
isSlash(c) == c \in {"/", "\\"}

\* The path state of the URL parser: the segments of `s` (separated by
\* slashes) pushed on `acc`; "." is dropped, ".." pops the last segment, and
\* either one leaves an empty segment when it ends the path.
RECURSIVE parsePath(_, _, _)
parsePath(s, seg, acc) ==
    IF s = <<>> \/ isSlash(s[1])
    THEN LET last == s = <<>>
             pushed ==
                IF seg = <<".", ".">>
                THEN LET popped == IF acc = <<>> THEN acc ELSE SubSeq(acc, 1, Len(acc) - 1)
                     IN  IF last THEN Append(popped, <<>>) ELSE popped
                ELSE IF seg = <<".">>
                THEN IF last THEN Append(acc, <<>>) ELSE acc
                ELSE Append(acc, seg)
         IN  IF last THEN pushed ELSE parsePath(Tail(s), <<>>, pushed)
    ELSE parsePath(Tail(s), Append(seg, s[1]), acc)

\* Index of the first slash of s, Len(s) + 1 when there is none
RECURSIVE firstSlash(_, _)
firstSlash(s, i) == IF i > Len(s) \/ isSlash(s[i]) THEN i ELSE firstSlash(s, i + 1)

\* The host of an authority: what follows the last "@" (credentials)
RECURSIVE hostOf(_)
hostOf(auth) ==
    IF \E i \in 1..Len(auth) : auth[i] = "@"
    THEN hostOf(SubSeq(auth, (CHOOSE i \in 1..Len(auth) : auth[i] = "@") + 1, Len(auth)))
    ELSE auth

\* new URL(ref, base) for a base of a special scheme: a reference that opens
\* with two slashes carries its own authority, one that opens with one slash
\* is a path under the base's authority, any other is relative to the base's
\* path.
newURL(ref, base) ==
    IF Len(ref) >= 2 /\ isSlash(ref[1]) /\ isSlash(ref[2])
    THEN LET rest == SubSeq(ref, 3, Len(ref))
             cut == firstSlash(rest, 1)
         IN  [scheme |-> base.scheme, host |-> hostOf(SubSeq(rest, 1, cut - 1)), port |-> "",
              path |-> IF cut > Len(rest) THEN <<>> ELSE parsePath(SubSeq(rest, cut + 1, Len(rest)), <<>>, <<>>),
              search |-> <<>>]
    ELSE IF Len(ref) >= 1 /\ isSlash(ref[1])
    THEN [scheme |-> base.scheme, host |-> base.host, port |-> base.port,
          path |-> parsePath(Tail(ref), <<>>, <<>>), search |-> <<>>]
    ELSE [scheme |-> base.scheme, host |-> base.host, port |-> base.port,
          path |-> parsePath(ref, <<>>,
                     IF base.path = <<>> THEN <<>> ELSE SubSeq(base.path, 1, Len(base.path) - 1)),
          search |-> <<>>]

\* URL.origin: scheme, host and port
originOf(url) == <<url.scheme, url.host, url.port>>

HTTPException(status, message) == [kind |-> "throw", status |-> status, message |-> message]

\* The classic SSRF slip: the key resolved as a reference of its own, with
\* no check of the origin it lands on.
fetchFromOriginUnchecked(originUrl, key, params) ==
    [kind |-> "dispatch", method |-> "GET",
     url |-> [newURL(key, originUrl) EXCEPT !.search = serialize(params)]]

\* fetchFromOrigin up to its fetch: the request it dispatches, or the
\* exception it throws.
fetchFromOriginPlan(originUrl, key, params) ==
    LET encodedKey == restoreSlashes(encodeURIComponent(key))
        transformUrl == [newURL(<<"/", "transform", "/">> \o encodedKey, originUrl)
                            EXCEPT !.search = serialize(params)]
        expectedOrigin == originOf(originUrl)
    IN  IF originOf(transformUrl) # expectedOrigin
        THEN HTTPException(400, "Invalid origin URL")
        ELSE [kind |-> "dispatch", method |-> "GET", url |-> transformUrl]

\* What a rejected fetch rejects with.  AbortSignal.timeout rejects it with
\* a DOMException named TimeoutError; a transport failure with a TypeError.
TimeoutError == [isError |-> TRUE, name |-> "TimeoutError"]
TransportErrors == {[isError |-> TRUE, name |-> "TypeError"],
                    [isError |-> TRUE, name |-> "AbortError"],
                    [isError |-> FALSE, name |-> "none"]}

\* The catch block without its TimeoutError test
fetchCatchAll502(error) == HTTPException(502, "Bad Gateway")

\* The catch block of fetchFromOrigin
fetchCatch(error) ==
    IF error.isError /\ error.name = "TimeoutError"
    THEN HTTPException(504, "Gateway Timeout")
    ELSE HTTPException(502, "Bad Gateway")

\* --------------------------------------------------------- Content Sniffer
\* A body is [byteLength, head]: its length and its first bytes (at most 16).
\* bytes[i] of the Uint8Array, undefined (-1) past its end
byteAt(bytes, i) == IF i + 1 <= Len(bytes) THEN bytes[i + 1] ELSE -1

UnsupportedFileType == <<"Unsupported file type">>

\* detectMimeType with the WebP test moved to the front
detectMimeTypeWebpFirst(buffer) ==
    LET bytes == SubSeq(buffer.head, 1, IF Len(buffer.head) < 16 THEN Len(buffer.head) ELSE 16)
    IN  IF byteAt(bytes, 8) = 87 /\ byteAt(bytes, 9) = 69 /\ byteAt(bytes, 10) = 66
                /\ byteAt(bytes, 11) = 80
        THEN "image/webp"
        ELSE IF byteAt(bytes, 0) = 255 /\ byteAt(bytes, 1) = 216 /\ byteAt(bytes, 2) = 255
        THEN "image/jpeg"
        ELSE IF byteAt(bytes, 0) = 137 /\ byteAt(bytes, 1) = 80 /\ byteAt(bytes, 2) = 78
                /\ byteAt(bytes, 3) = 71
        THEN "image/png"
        ELSE IF byteAt(bytes, 0) = 71 /\ byteAt(bytes, 1) = 73 /\ byteAt(bytes, 2) = 70
        THEN "image/gif"
        ELSE IF /\ byteAt(bytes, 4) = 102 /\ byteAt(bytes, 5) = 116
                /\ byteAt(bytes, 6) = 121 /\ byteAt(bytes, 7) = 112
                /\ byteAt(bytes, 8) = 97 /\ byteAt(bytes, 9) = 118 /\ byteAt(bytes, 10) = 105
                /\ byteAt(bytes, 11) \in {102, 115}
        THEN "image/avif"
        ELSE "throw"

\* detectMimeType: the MIME type, or "throw" for the Error it throws
detectMimeType(buffer) ==
    LET bytes == SubSeq(buffer.head, 1, IF Len(buffer.head) < 16 THEN Len(buffer.head) ELSE 16)
    IN  IF byteAt(bytes, 0) = 255 /\ byteAt(bytes, 1) = 216 /\ byteAt(bytes, 2) = 255
        THEN "image/jpeg"
        ELSE IF byteAt(bytes, 0) = 137 /\ byteAt(bytes, 1) = 80 /\ byteAt(bytes, 2) = 78
                /\ byteAt(bytes, 3) = 71
        THEN "image/png"
        ELSE IF byteAt(bytes, 0) = 71 /\ byteAt(bytes, 1) = 73 /\ byteAt(bytes, 2) = 70
        THEN "image/gif"
        ELSE IF byteAt(bytes, 8) = 87 /\ byteAt(bytes, 9) = 69 /\ byteAt(bytes, 10) = 66
                /\ byteAt(bytes, 11) = 80
        THEN "image/webp"
        ELSE IF /\ byteAt(bytes, 4) = 102 /\ byteAt(bytes, 5) = 116
                /\ byteAt(bytes, 6) = 121 /\ byteAt(bytes, 7) = 112
                /\ \/ byteAt(bytes, 8) = 97 /\ byteAt(bytes, 9) = 118
                      /\ byteAt(bytes, 10) = 105 /\ byteAt(bytes, 11) = 102
                   \/ byteAt(bytes, 8) = 97 /\ byteAt(bytes, 9) = 118
                      /\ byteAt(bytes, 10) = 105 /\ byteAt(bytes, 11) = 115
        THEN "image/avif"
        ELSE "throw"

\* ---------------------------------------------------------- Upload Pipeline
MAX_FILE_SIZE == 10485760

\* Number.parseInt(s, 10) of a header value: the number its leading digits
\* write, NaN when it has none.
digitValue(c) ==
    CASE c = "0" -> 0 [] c = "1" -> 1 [] c = "2" -> 2 [] c = "3" -> 3 [] c = "4" -> 4
      [] c = "5" -> 5 [] c = "6" -> 6 [] c = "7" -> 7 [] c = "8" -> 8 [] c = "9" -> 9
RECURSIVE parseDigits(_, _)
parseDigits(s, acc) ==
    IF s = <<>> \/ s[1] \notin Digit THEN acc
    ELSE parseDigits(Tail(s), 10 * acc + digitValue(s[1]))
parseInt(s) ==
    IF s = <<>> \/ s[1] \notin Digit THEN [nan |-> TRUE, value |-> 0]
    ELSE [nan |-> FALSE, value |-> parseDigits(s, 0)]

\* The declared-size test with >= for >
declaredTooLargeInclusive(contentLength) ==
    /\ contentLength # NULL
    /\ contentLength # <<>>
    /\ ~parseInt(contentLength).nan
    /\ parseInt(contentLength).value >= MAX_FILE_SIZE

\* `contentLength && Number.parseInt(contentLength, 10) > MAX_FILE_SIZE`
declaredTooLarge(contentLength) ==
    /\ contentLength # NULL
    /\ contentLength # <<>>
    /\ ~parseInt(contentLength).nan
    /\ parseInt(contentLength).value > MAX_FILE_SIZE

\* The catch block of the PUT handler: the status it answers an error with
putCatch(error) ==
    IF error.isError /\ error.message # <<>> /\ includes(error.message, UnsupportedFileType)
    THEN 415
    ELSE 500

\* -------------------------------------------------------------- the state
Procs == 1..MaxReqs

VARIABLES
    req,            \* req[p]: the request p handles (method, URL, headers, body)
    pc,             \* pc[p]: where p's handler (or gateway call) stands
    resp,           \* resp[p]: what the handler answered, or threw
    cache,          \* the cache store (caches.default): canonical key -> response
    bucket,         \* the object store (IMAGE_STORE): key -> [body, contentType]
    originAnswers,  \* the responses the origin may answer a fetch with
    looked,         \* looked[p]: the key p's matchCache gave to cache.match
    call,           \* call[p]: the arguments of p's fetchFromOrigin call
    sent,           \* sent[p]: the fetch p dispatched and how it ended
    gw,             \* gw[p]: what fetchFromOrigin returned or threw
    wb,             \* wb[p]: the putCache promise handed to waitUntil
    log             \* log[p]: the collaborator calls p made, in order

vars == <<req, pc, resp, cache, bucket, originAnswers, looked, call, sent, gw, wb, log>>

HOST == "cdn.example"
\* c.env.ORIGIN_URL, parsed
ORIGIN_URL == [scheme |-> "https", host |-> <<"o">>, port |-> "", path |-> <<>>]

NoBody == [byteLength |-> 0, head |-> <<>>]
NoReq == [method |-> "NONE", path |-> <<>>, query |-> <<>>, contentLength |-> NULL,
          contentType |-> NULL, body |-> NoBody]
NoResp == [kind |-> "none"]
NoKey == [host |-> "", path |-> <<>>, search |-> <<>>]
NoCall == [originUrl |-> ORIGIN_URL, key |-> NULL, params |-> <<>>]
NoFetch == [outcome |-> "none"]
NoResult == [kind |-> "none"]
NoTask == [state |-> "none"]

\* new URL(c.req.url)
urlOf(r) == [host |-> HOST, path |-> r.path, query |-> r.query]

\* Response.ok
ok(response) == response.status >= 200 /\ response.status <= 299

\* c.json(body, status)
json(status, body) ==
    [kind |-> "json", status |-> status, statusText |-> "",
     headers |-> ("content-type" :> <<"application/json">>), body |-> body]

InvalidKeyFormat == <<"{error:", "Invalid key format", "}">>
FileTooLarge == <<"{error:", "File too large. Maximum size is 10MB", "}">>
UnsupportedMediaType == <<"{error:", "Unsupported media type", "}">>
InternalServerError == <<"{error:", "Internal server error", "}">>

\* The relayed response without its headers.set
relayDropMarker(upstream, marker) ==
    [kind |-> "relay", status |-> upstream.status, statusText |-> upstream.statusText,
     headers |-> upstream.headers, body |-> upstream.body]

\* new Response(upstream.body, {status, statusText, headers}) and then
\* headers.set("X-Cache", marker)
relay(upstream, marker) ==
    [kind |-> "relay", status |-> upstream.status, statusText |-> upstream.statusText,
     headers |-> headersSet(upstream.headers, "x-cache", <<marker>>), body |-> upstream.body]

NoHeaders == [n \in {} |-> <<>>]

\* An exception that leaves the handler: an HTTPException carries its status;
\* any other error is answered 500 by the framework's error handler.
thrown(exception) ==
    [kind |-> "throw", status |-> exception.status, statusText |-> "",
     headers |-> NoHeaders, body |-> <<exception.message>>]
uncaught(message) ==
    [kind |-> "uncaught", status |-> 500, statusText |-> "", headers |-> NoHeaders,
     body |-> <<message>>]

\* What a rejected body read or object-store write rejects with
IOErrors == {[isError |-> TRUE, message |-> <<"Network connection lost">>],
             [isError |-> TRUE, message |-> <<"R2: ", "Unsupported file type">>],
             [isError |-> TRUE, message |-> <<>>],
             [isError |-> FALSE, message |-> UnsupportedFileType]}

\* -------------------------------------------------------- GET /images/*
\* The handler up to its first await: the key is extracted and validated,
\* then matchCache computes the canonical key and calls cache.match.
GetBegin(p) ==
    /\ pc[p] = "start"
    /\ req[p].method = "GET"
    /\ LET key == extractKeyFromPath(req[p].path)
       IN  IF keyRejected(key)
           THEN /\ resp' = [resp EXCEPT ![p] = json(400, InvalidKeyFormat)]
                /\ pc' = [pc EXCEPT ![p] = "done"]
                /\ log' = [log EXCEPT ![p] = Append(@, "return")]
                /\ looked' = looked
           ELSE /\ looked' = [looked EXCEPT ![p] = createCacheKey(urlOf(req[p]))]
                /\ pc' = [pc EXCEPT ![p] = "lookup"]
                /\ log' = [log EXCEPT ![p] = Append(@, "cache.match")]
                /\ resp' = resp
    /\ UNCHANGED <<req, cache, bucket, originAnswers, call, sent, gw, wb>>

\* A hit that does not return: the handler goes on to the origin
GetLookupHitFallsThrough(p) ==
    /\ pc[p] = "lookup"
    /\ looked[p] \in DOMAIN cache
    /\ call' = [call EXCEPT ![p] = [originUrl |-> ORIGIN_URL,
                                    key |-> extractKeyFromPath(req[p].path),
                                    params |-> searchParams(urlOf(req[p]))]]
    /\ pc' = [pc EXCEPT ![p] = "gw_call"]
    /\ log' = [log EXCEPT ![p] = Append(@, "hit")]
    /\ UNCHANGED <<req, resp, cache, bucket, originAnswers, looked, sent, gw, wb>>

\* cache.match resolves with an entry: the handler answers from it.
GetLookupHit(p) ==
    /\ pc[p] = "lookup"
    /\ looked[p] \in DOMAIN cache
    /\ resp' = [resp EXCEPT ![p] = relay(cache[looked[p]], "HIT")]
    /\ pc' = [pc EXCEPT ![p] = "done"]
    /\ log' = [log EXCEPT ![p] = @ \o <<"hit", "return">>]
    /\ UNCHANGED <<req, cache, bucket, originAnswers, looked, call, sent, gw, wb>>

\* cache.match resolves with undefined: the handler calls fetchFromOrigin.
GetLookupMiss(p) ==
    /\ pc[p] = "lookup"
    /\ looked[p] \notin DOMAIN cache
    /\ call' = [call EXCEPT ![p] = [originUrl |-> ORIGIN_URL,
                                    key |-> extractKeyFromPath(req[p].path),
                                    params |-> searchParams(urlOf(req[p]))]]
    /\ pc' = [pc EXCEPT ![p] = "gw_call"]
    /\ log' = [log EXCEPT ![p] = Append(@, "miss")]
    /\ UNCHANGED <<req, resp, cache, bucket, originAnswers, looked, sent, gw, wb>>

\* cache.match rejects (the store is unavailable): matchCache and the handler
\* catch nothing, the rejection leaves the handler.
GetLookupReject(p) ==
    /\ pc[p] = "lookup"
    /\ resp' = [resp EXCEPT ![p] = uncaught("cache.match rejected")]
    /\ pc' = [pc EXCEPT ![p] = "done"]
    /\ log' = [log EXCEPT ![p] = @ \o <<"reject", "throw">>]
    /\ UNCHANGED <<req, cache, bucket, originAnswers, looked, call, sent, gw, wb>>

\* A gateway with single-flight: a call joins the pending fetch of the same
\* URL instead of dispatching its own
GatewayCallCoalesced(p) ==
    /\ pc[p] = "gw_call"
    /\ LET plan == fetchFromOriginPlan(call[p].originUrl, call[p].key, call[p].params)
       IN  IF plan.kind = "throw"
           THEN /\ gw' = [gw EXCEPT ![p] = plan]
                /\ pc' = [pc EXCEPT ![p] = "gw_done"]
                /\ UNCHANGED <<sent, log>>
           ELSE IF \E q \in Procs \ {p} : sent[q].outcome = "pending" /\ sent[q].url = plan.url
           THEN /\ pc' = [pc EXCEPT ![p] = "fetching"]
                /\ UNCHANGED <<sent, log, gw>>
           ELSE /\ sent' = [sent EXCEPT ![p] = [outcome |-> "pending", method |-> plan.method,
                                                url |-> plan.url]]
                /\ pc' = [pc EXCEPT ![p] = "fetching"]
                /\ log' = [log EXCEPT ![p] = Append(@, "fetch")]
                /\ gw' = gw
    /\ UNCHANGED <<req, resp, cache, bucket, originAnswers, looked, call, wb>>

\* fetchFromOrigin up to its await: the URL is built and checked, then the
\* fetch is dispatched.
GatewayCall(p) ==
    /\ pc[p] = "gw_call"
    /\ LET plan == fetchFromOriginPlan(call[p].originUrl, call[p].key, call[p].params)
       IN  IF plan.kind = "throw"
           THEN /\ gw' = [gw EXCEPT ![p] = plan]
                /\ pc' = [pc EXCEPT ![p] = "gw_done"]
                /\ UNCHANGED <<sent, log>>
           ELSE /\ sent' = [sent EXCEPT ![p] = [outcome |-> "pending", method |-> plan.method,
                                                url |-> plan.url]]
                /\ pc' = [pc EXCEPT ![p] = "fetching"]
                /\ log' = [log EXCEPT ![p] = Append(@, "fetch")]
                /\ gw' = gw
    /\ UNCHANGED <<req, resp, cache, bucket, originAnswers, looked, call, wb>>

\* The origin answers: fetch resolves and fetchFromOrigin returns the response.
FetchResolve(p) ==
    /\ pc[p] = "fetching"
    /\ \E r \in originAnswers :
        gw' = [gw EXCEPT ![p] = [kind |-> "return", response |-> r]]
    /\ sent' = [sent EXCEPT ![p].outcome = "response"]
    /\ pc' = [pc EXCEPT ![p] = "gw_done"]
    /\ UNCHANGED <<req, resp, cache, bucket, originAnswers, looked, call, wb, log>>

\* A fetch without the signal: the time bound expires and the call goes on
\* waiting for the origin
FetchTimeoutIgnored(p) ==
    /\ pc[p] = "fetching"
    /\ sent' = [sent EXCEPT ![p].outcome = "pending"]
    /\ UNCHANGED <<req, pc, resp, cache, bucket, originAnswers, looked, call, gw, wb, log>>

\* The time bound expires first: the signal aborts the fetch with TimeoutError.
FetchTimeout(p) ==
    /\ pc[p] = "fetching"
    /\ gw' = [gw EXCEPT ![p] = fetchCatch(TimeoutError)]
    /\ sent' = [sent EXCEPT ![p].outcome = "timeout"]
    /\ pc' = [pc EXCEPT ![p] = "gw_done"]
    /\ UNCHANGED <<req, resp, cache, bucket, originAnswers, looked, call, wb, log>>

\* The transport fails (DNS, connection refused, TLS): fetch rejects.
FetchFail(p) ==
    /\ pc[p] = "fetching"
    /\ \E e \in TransportErrors : gw' = [gw EXCEPT ![p] = fetchCatch(e)]
    /\ sent' = [sent EXCEPT ![p].outcome = "failure"]
    /\ pc' = [pc EXCEPT ![p] = "gw_done"]
    /\ UNCHANGED <<req, resp, cache, bucket, originAnswers, looked, call, wb, log>>

\* A handler without the `originResponse.ok` test before putCache
GetRelayCachesErrors(p) ==
    /\ pc[p] = "gw_done"
    /\ req[p].method = "GET"
    /\ IF gw[p].kind = "throw"
       THEN /\ resp' = [resp EXCEPT ![p] = thrown(gw[p])]
            /\ log' = [log EXCEPT ![p] = Append(@, "throw")]
            /\ wb' = wb
       ELSE /\ resp' = [resp EXCEPT ![p] = relay(gw[p].response, "MISS")]
            /\ IF putCacheWrites(gw[p].response)
               THEN /\ wb' = [wb EXCEPT ![p] = [state |-> "putting",
                                                key |-> createCacheKey(urlOf(req[p])),
                                                entry |-> gw[p].response]]
                    /\ log' = [log EXCEPT ![p] = @ \o <<"putCache", "cache.put", "return">>]
               ELSE /\ wb' = [wb EXCEPT ![p] = [state |-> "skipped"]]
                    /\ log' = [log EXCEPT ![p] = @ \o <<"putCache", "return">>]
    /\ pc' = [pc EXCEPT ![p] = "done"]
    /\ UNCHANGED <<req, cache, bucket, originAnswers, looked, call, sent, gw>>

\* A handler that awaits putCache before it returns the response
GetRelayAwaitsPut(p) ==
    /\ pc[p] = "gw_done"
    /\ req[p].method = "GET"
    /\ IF gw[p].kind = "throw"
       THEN /\ resp' = [resp EXCEPT ![p] = thrown(gw[p])]
            /\ log' = [log EXCEPT ![p] = Append(@, "throw")]
            /\ pc' = [pc EXCEPT ![p] = "done"]
            /\ wb' = wb
       ELSE IF ok(gw[p].response) /\ putCacheWrites(gw[p].response)
       THEN /\ wb' = [wb EXCEPT ![p] = [state |-> "putting",
                                        key |-> createCacheKey(urlOf(req[p])),
                                        entry |-> gw[p].response]]
            /\ log' = [log EXCEPT ![p] = @ \o <<"putCache", "cache.put">>]
            /\ pc' = [pc EXCEPT ![p] = "awaiting"]
            /\ resp' = resp
       ELSE /\ resp' = [resp EXCEPT ![p] = relay(gw[p].response, "MISS")]
            /\ log' = [log EXCEPT ![p] = Append(@, "return")]
            /\ pc' = [pc EXCEPT ![p] = "done"]
            /\ wb' = wb
    /\ UNCHANGED <<req, cache, bucket, originAnswers, looked, call, sent, gw>>

\* Back in the handler: an exception of fetchFromOrigin leaves the handler;
\* a response is relayed with X-Cache: MISS and, when ok, putCache is called
\* on its clone and its promise handed to waitUntil.  putCache runs up to
\* its cache.put inside that call.
GetRelay(p) ==
    /\ pc[p] = "gw_done"
    /\ req[p].method = "GET"
    /\ IF gw[p].kind = "throw"
       THEN /\ resp' = [resp EXCEPT ![p] = thrown(gw[p])]
            /\ log' = [log EXCEPT ![p] = Append(@, "throw")]
            /\ wb' = wb
       ELSE LET originResponse == gw[p].response
                cacheableResponse == originResponse
            IN  /\ resp' = [resp EXCEPT ![p] = relay(originResponse, "MISS")]
                /\ IF ~ok(originResponse)
                   THEN /\ wb' = wb
                        /\ log' = [log EXCEPT ![p] = Append(@, "return")]
                   ELSE IF putCacheWrites(cacheableResponse)
                   THEN /\ wb' = [wb EXCEPT ![p] =
                                    [state |-> "putting",
                                     key |-> createCacheKey(urlOf(req[p])),
                                     entry |-> cacheableResponse]]
                        /\ log' = [log EXCEPT ![p] = @ \o <<"putCache", "cache.put", "return">>]
                   ELSE /\ wb' = [wb EXCEPT ![p] = [state |-> "skipped"]]
                        /\ log' = [log EXCEPT ![p] = @ \o <<"putCache", "return">>]
    /\ pc' = [pc EXCEPT ![p] = "done"]
    /\ UNCHANGED <<req, cache, bucket, originAnswers, looked, call, sent, gw>>

\* cache.put resolves: the entry is in the store under the canonical key.
CachePutDone(p) ==
    /\ wb[p].state = "putting"
    /\ cache' = (wb[p].key :> wb[p].entry) @@ cache
    /\ wb' = [wb EXCEPT ![p].state = "stored"]
    /\ UNCHANGED <<req, pc, resp, bucket, originAnswers, looked, call, sent, gw, log>>

\* A handler that awaits putCache: the rejection of cache.put becomes the
\* request's outcome
CachePutFailSurfaces(p) ==
    /\ wb[p].state = "putting"
    /\ wb' = [wb EXCEPT ![p].state = "failed"]
    /\ resp' = [resp EXCEPT ![p] = uncaught("cache.put rejected")]
    /\ UNCHANGED <<req, pc, cache, bucket, originAnswers, looked, call, sent, gw, log>>

\* cache.put rejects: the putCache promise rejects, and waitUntil is its
\* only holder.
CachePutFail(p) ==
    /\ wb[p].state = "putting"
    /\ wb' = [wb EXCEPT ![p].state = "failed"]
    /\ UNCHANGED <<req, pc, resp, cache, bucket, originAnswers, looked, call, sent, gw, log>>

\* -------------------------------------------------------- PUT /images/*
\* The handler up to its first await: key validation, the declared size,
\* then c.req.arrayBuffer() is called.
PutBegin(p) ==
    /\ pc[p] = "start"
    /\ req[p].method = "PUT"
    /\ LET key == extractKeyFromPath(req[p].path)
       IN  IF keyRejected(key)
           THEN /\ resp' = [resp EXCEPT ![p] = json(400, InvalidKeyFormat)]
                /\ pc' = [pc EXCEPT ![p] = "done"]
                /\ log' = [log EXCEPT ![p] = Append(@, "return")]
           ELSE IF declaredTooLarge(req[p].contentLength)
           THEN /\ resp' = [resp EXCEPT ![p] = json(413, FileTooLarge)]
                /\ pc' = [pc EXCEPT ![p] = "done"]
                /\ log' = [log EXCEPT ![p] = Append(@, "return")]
           ELSE /\ pc' = [pc EXCEPT ![p] = "reading"]
                /\ log' = [log EXCEPT ![p] = Append(@, "req.arrayBuffer")]
                /\ resp' = resp
    /\ UNCHANGED <<req, cache, bucket, originAnswers, looked, call, sent, gw, wb>>

\* The body is materialised: the actual size is checked, the content
\* sniffed, and IMAGE_STORE.put called.
PutBodyRead(p) ==
    /\ pc[p] = "reading"
    /\ LET body == req[p].body
       IN  IF body.byteLength > MAX_FILE_SIZE
           THEN /\ resp' = [resp EXCEPT ![p] = json(413, FileTooLarge)]
                /\ pc' = [pc EXCEPT ![p] = "done"]
                /\ log' = [log EXCEPT ![p] = Append(@, "return")]
           ELSE IF detectMimeType(body) = "throw"
           THEN /\ resp' = [resp EXCEPT ![p] =
                        IF putCatch([isError |-> TRUE, message |-> UnsupportedFileType]) = 415
                        THEN json(415, UnsupportedMediaType)
                        ELSE json(500, InternalServerError)]
                /\ pc' = [pc EXCEPT ![p] = "done"]
                /\ log' = [log EXCEPT ![p] = Append(@, "return")]
           ELSE /\ pc' = [pc EXCEPT ![p] = "storing"]
                /\ log' = [log EXCEPT ![p] = Append(@, "store.put")]
                /\ resp' = resp
    /\ UNCHANGED <<req, cache, bucket, originAnswers, looked, call, sent, gw, wb>>

\* c.req.arrayBuffer() rejects: the catch block answers.
PutBodyFail(p) ==
    /\ pc[p] = "reading"
    /\ \E e \in IOErrors :
        resp' = [resp EXCEPT ![p] =
                    IF putCatch(e) = 415 THEN json(415, UnsupportedMediaType)
                    ELSE json(500, InternalServerError)]
    /\ pc' = [pc EXCEPT ![p] = "done"]
    /\ log' = [log EXCEPT ![p] = @ \o <<"arrayBuffer.reject", "return">>]
    /\ UNCHANGED <<req, cache, bucket, originAnswers, looked, call, sent, gw, wb>>

\* A store write that trusts the Content-Type header of the request
PutStoreDoneDeclaredType(p) ==
    /\ pc[p] = "storing"
    /\ LET key == extractKeyFromPath(req[p].path)
       IN  /\ bucket' = (key :> [body |-> req[p].body,
                                 contentType |-> req[p].contentType]) @@ bucket
           /\ resp' = [resp EXCEPT ![p] =
                        json(201, <<"{success:true,key:">> \o key \o <<"}">>)]
    /\ pc' = [pc EXCEPT ![p] = "done"]
    /\ log' = [log EXCEPT ![p] = Append(@, "return")]
    /\ UNCHANGED <<req, cache, originAnswers, looked, call, sent, gw, wb>>

\* IMAGE_STORE.put resolves: the object is stored under the key with the
\* sniffed type, and the handler answers 201 with the key.
PutStoreDone(p) ==
    /\ pc[p] = "storing"
    /\ LET key == extractKeyFromPath(req[p].path)
       IN  /\ bucket' = (key :> [body |-> req[p].body,
                                 contentType |-> detectMimeType(req[p].body)]) @@ bucket
           /\ resp' = [resp EXCEPT ![p] =
                        json(201, <<"{success:true,key:">> \o key \o <<"}">>)]
    /\ pc' = [pc EXCEPT ![p] = "done"]
    /\ log' = [log EXCEPT ![p] = Append(@, "return")]
    /\ UNCHANGED <<req, cache, originAnswers, looked, call, sent, gw, wb>>

\* IMAGE_STORE.put rejects: the catch block answers.
PutStoreFail(p) ==
    /\ pc[p] = "storing"
    /\ \E e \in IOErrors :
        resp' = [resp EXCEPT ![p] =
                    IF putCatch(e) = 415 THEN json(415, UnsupportedMediaType)
                    ELSE json(500, InternalServerError)]
    /\ pc' = [pc EXCEPT ![p] = "done"]
    /\ log' = [log EXCEPT ![p] = @ \o <<"store.reject", "return">>]
    /\ UNCHANGED <<req, cache, bucket, originAnswers, looked, call, sent, gw, wb>>

\* ------------------------------------------------------------- the inputs
\* Responses of the origin: [status, statusText, headers, body]
originResponse(status, statusText, headers, body) ==
    [status |-> status, statusText |-> statusText, headers |-> headers, body |-> body]

\* What the origin of the read path may answer: two images that may be
\* cached (one carries an X-Cache of its own), an image that must not be
\* stored, and an error status that carries a permitting Cache-Control.
ReadPathAnswers ==
    {originResponse(200, "OK",
        ("cache-control" :> <<"public">>) @@ ("x-cache" :> <<"ORIGIN">>), <<"img1">>),
     originResponse(200, "OK", ("cache-control" :> <<"Max-Age", "=", "6", "0">>), <<"img2">>),
     originResponse(200, "OK", ("cache-control" :> <<"No-Store">>), <<"img3">>),
     originResponse(404, "Not Found", ("cache-control" :> <<"public">>), <<"missing">>)}

\* A GET of /images/<key>?<query>
getRequest(key, query) ==
    [method |-> "GET", path |-> <<MOUNT>> \o key, query |-> query,
     contentLength |-> NULL, contentType |-> NULL, body |-> NoBody]

\* A PUT of /images/<key> with a Content-Length header (or none), a
\* Content-Type header (or none) and a body
putRequest(key, contentLength, contentType, body) ==
    [method |-> "PUT", path |-> <<MOUNT>> \o key, query |-> <<>>,
     contentLength |-> contentLength, contentType |-> contentType, body |-> body]

pair(n, v) == [name |-> n, value |-> v]

\* The requests of the read path: one key, asked with the same parameters in
\* two orders and with none.
ReadPathRequests ==
    {getRequest(<<"a">>, <<pair("a", "1"), pair("b", "+")>>),
     getRequest(<<"a">>, <<pair("b", "%20"), pair("a", "1")>>),
     getRequest(<<"a">>, <<>>)}

\* Request r alone, and requests r1 and r2 alone
only(r, none) == [p \in Procs |-> IF p = 1 THEN r ELSE none]
both(r1, r2, none) == [p \in Procs |-> IF p = 1 THEN r1 ELSE IF p = 2 THEN r2 ELSE none]

\* The state after deployment: empty stores, every request of the run
\* received and not yet handled.  `requests` are the runs' requests,
\* `calls` the arguments of their direct calls of fetchFromOrigin, `start`
\* where they stand ("start": a handler, "gw_call": a direct call).
InitWith(requests, calls, answers, start) ==
    /\ req \in requests
    /\ call \in calls
    /\ originAnswers \in answers
    /\ pc = [p \in Procs |-> IF req[p] = NoReq THEN "unused" ELSE start]
    /\ resp = [p \in Procs |-> NoResp]
    /\ cache = [k \in {} |-> NoResp]
    /\ bucket = [k \in {} |-> NoBody]
    /\ looked = [p \in Procs |-> NoKey]
    /\ sent = [p \in Procs |-> NoFetch]
    /\ gw = [p \in Procs |-> NoResult]
    /\ wb = [p \in Procs |-> NoTask]
    /\ log = [p \in Procs |-> <<>>]

\* ------------------------------------------- the read path, MaxReqs requests
NoCalls == {[p \in Procs |-> NoCall]}

Init == InitWith([Procs -> ReadPathRequests], NoCalls, {ReadPathAnswers}, "start")

Next ==
    \E p \in Procs :
        \/ GetBegin(p)
        \/ GetLookupHit(p)
        \/ GetLookupMiss(p)
        \/ GetLookupReject(p)
        \/ GatewayCall(p)
        \/ FetchResolve(p)
        \/ FetchTimeout(p)
        \/ FetchFail(p)
        \/ GetRelay(p)
        \/ CachePutDone(p)
        \/ CachePutFail(p)

Spec == Init /\ [][Next]_vars

\* ------------------------------ the read path with its scheduling
\* Two requests in flight.  The event loop runs every continuation that is
\* ready (the call of fetchFromOrigin after the lookup, the handler after
\* fetchFromOrigin settled), and the timer of AbortSignal.timeout fires while
\* the fetch is pending.  Nothing is assumed of the origin or of the cache
\* store: a fetch may never settle by itself.
InitLive ==
    InitWith({both(r1, r2, NoReq) : r1 \in ReadPathRequests, r2 \in ReadPathRequests},
             NoCalls, {ReadPathAnswers}, "start")

Scheduling ==
    \A p \in Procs :
        /\ WF_vars(GatewayCall(p))
        /\ WF_vars(FetchTimeout(p))
        /\ WF_vars(GetRelay(p))

SpecLive == InitLive /\ [][Next]_vars /\ Scheduling

\* --------------------------------- one request, GET or PUT, of any key
KeyChars == {"a", ".", "/", "%"}

PngBody == [byteLength |-> 16,
            head |-> <<137, 80, 78, 71, 13, 10, 26, 10, 0, 0, 0, 13, 73, 72, 68, 82>>]
TextBody == [byteLength |-> 16,
             head |-> <<104, 101, 108, 108, 111, 32, 119, 111, 114, 108, 100, 33, 33, 33, 33, 10>>]
HugePngBody == [byteLength |-> MAX_FILE_SIZE + 1,
                head |-> <<137, 80, 78, 71, 13, 10, 26, 10, 0, 0, 0, 13, 73, 72, 68, 82>>]
FullPngBody == [byteLength |-> MAX_FILE_SIZE,
                head |-> <<137, 80, 78, 71, 13, 10, 26, 10, 0, 0, 0, 13, 73, 72, 68, 82>>]

\* Content-Length values: none, a small one, the ceiling, the ceiling plus
\* one, and a larger one
AtCeiling == <<"1", "0", "4", "8", "5", "7", "6", "0">>
OverCeiling == <<"1", "0", "4", "8", "5", "7", "6", "1">>
DeclaredLengths ==
    {NULL, <<"1", "6">>, AtCeiling, OverCeiling, <<"2", "0", "0", "0", "0", "0", "0", "0">>}

\* Content-Type values a client may declare
DeclaredTypes == {NULL, <<"image/gif">>}

HandlerRequests ==
    {getRequest(k, <<>>) : k \in SeqUpTo(KeyChars, MaxKeyLen)}
    \cup {putRequest(k, cl, ct, b) :
            k \in SeqUpTo(KeyChars, MaxKeyLen),
            cl \in DeclaredLengths,
            ct \in DeclaredTypes,
            b \in {PngBody, TextBody, HugePngBody, FullPngBody}}

InitHandler ==
    InitWith({only(r, NoReq) : r \in HandlerRequests}, NoCalls, {ReadPathAnswers}, "start")

NextHandler ==
    \E p \in Procs :
        \/ GetBegin(p)
        \/ GetLookupMiss(p)
        \/ GetLookupReject(p)
        \/ GatewayCall(p)
        \/ FetchResolve(p)
        \/ FetchTimeout(p)
        \/ FetchFail(p)
        \/ GetRelay(p)
        \/ CachePutDone(p)
        \/ CachePutFail(p)
        \/ PutBegin(p)
        \/ PutBodyRead(p)
        \/ PutBodyFail(p)
        \/ PutStoreDone(p)
        \/ PutStoreFail(p)

SpecHandler == InitHandler /\ [][NextHandler]_vars

\* ------------------------------ fetchFromOrigin called with any arguments
GatewayKeyChars == {"a", ".", "/", "\\", "@"}

\* Configured origins, parsed: one with the default port and no path, one
\* with a port and a path.
OriginUrls == {ORIGIN_URL,
               [scheme |-> "http", host |-> <<"o">>, port |-> "8080", path |-> <<<<"base">>, <<>>>>]}

DirectCall == [NoReq EXCEPT !.method = "CALL"]

GatewayCalls ==
    [originUrl : OriginUrls, key : SeqUpTo(GatewayKeyChars, MaxKeyLen),
     params : {<<>>, <<pair("b", " "), pair("a", "1")>>}]

InitGateway ==
    InitWith({only(DirectCall, NoReq)}, {only(c, NoCall) : c \in GatewayCalls},
             {ReadPathAnswers}, "gw_call")

NextGateway ==
    \E p \in Procs :
        \/ GatewayCall(p)
        \/ FetchResolve(p)
        \/ FetchTimeout(p)
        \/ FetchFail(p)

SpecGateway == InitGateway /\ [][NextGateway]_vars

\* ------------------------- createCacheKey on two URLs of the same parameters
Pairs == {pair(n, v) : n \in Names, v \in RawValues}

\* How often the decoded pair x occurs in the query q
RECURSIVE occurrences(_, _)
occurrences(q, x) ==
    IF q = <<>> THEN 0
    ELSE (IF pair(q[1].name, decodeValue(q[1].value)) = x THEN 1 ELSE 0)
         + occurrences(Tail(q), x)

\* The same multiset of decoded (name, value) pairs
sameParameters(q1, q2) ==
    /\ Len(q1) = Len(q2)
    /\ \A n \in Names : \A v \in {decodeValue(r) : r \in RawValues} :
        occurrences(q1, pair(n, v)) = occurrences(q2, pair(n, v))

\* The other raw spelling of a value that has two
respell(x) ==
    pair(x.name, IF x.value = "+" THEN "%20" ELSE IF x.value = "%20" THEN "+" ELSE x.value)

\* The queries of the parameters of q in another order, as they are
\* spelled in q and respelled
reorderings(q) ==
    UNION {{[i \in 1..Len(q) |-> q[f[i]]], [i \in 1..Len(q) |-> respell(q[f[i]])]} :
            f \in Permutations(1..Len(q))}

InitCacheKey ==
    \E q1 \in SeqUpTo(Pairs, MaxParams) : \E q2 \in reorderings(q1) :
        InitWith({both(getRequest(<<"a">>, q1), getRequest(<<"a">>, q2), NoReq)}, NoCalls,
                 {ReadPathAnswers}, "start")

NextCacheKey == \E p \in Procs : GetBegin(p)

SpecCacheKey == InitCacheKey /\ [][NextCacheKey]_vars

\* ------------------- putCache on a response of any Cache-Control header
CacheControlAnswers ==
    {originResponse(200, "OK", ("cache-control" :> cc), <<"img">>) :
        cc \in SeqUpTo(CCLex, MaxCCLen)}
    \cup {originResponse(200, "OK", NoHeaders, <<"img">>)}

InitPutCache ==
    InitWith({only(getRequest(<<"a">>, <<pair("b", "1"), pair("a", "1")>>), NoReq)}, NoCalls,
             {{r} : r \in CacheControlAnswers}, "start")

NextPutCache ==
    \E p \in Procs :
        \/ GetBegin(p)
        \/ GetLookupMiss(p)
        \/ GatewayCall(p)
        \/ FetchResolve(p)
        \/ GetRelay(p)
        \/ CachePutDone(p)
        \/ CachePutFail(p)

SpecPutCache == InitPutCache /\ [][NextPutCache]_vars

\* ------------------------------------- one PUT of a valid key, of any body
\* The bytes a body opens with: four that start it, four of a box type,
\* four of a brand, four more.
Openings == {<<255, 216, 255, 224>>, <<137, 80, 78, 71>>, <<71, 73, 70, 56>>,
             <<82, 73, 70, 70>>, <<0, 0, 0, 32>>, <<137, 80, 78, 0>>, <<255, 216, 0, 0>>}
BoxTypes == {<<102, 116, 121, 112>>, <<36, 0, 0, 0>>, <<102, 116, 121, 0>>}
Brands == {<<87, 69, 66, 80>>, <<97, 118, 105, 102>>, <<97, 118, 105, 115>>,
           <<104, 101, 105, 99>>, <<97, 118, 105, 0>>}

\* The body of n bytes that opens as `bytes` does: its length, and as many
\* of its first 16 bytes as it has
bodyOf(bytes, n) ==
    [byteLength |-> n,
     head |-> SubSeq(bytes, 1, IF n < Len(bytes) THEN n ELSE Len(bytes))]

InitSniffer ==
    \E o \in Openings : \E t \in BoxTypes : \E b \in Brands : \E n \in 0..MaxBodyLen :
        InitWith({only(putRequest(<<"a">>, NULL, NULL,
                                  bodyOf(o \o t \o b \o <<0, 0, 0, 0>>, n)), NoReq)},
                 NoCalls, {ReadPathAnswers}, "start")

NextSniffer ==
    \E p \in Procs :
        \/ PutBegin(p)
        \/ PutBodyRead(p)
        \/ PutBodyFail(p)
        \/ PutStoreDone(p)
        \/ PutStoreFail(p)

SpecSniffer == InitSniffer /\ [][NextSniffer]_vars

\* =============================================================== claims
\* The URL fetchFromOrigin constructs for a call's arguments
constructedUrl(c) ==
    newURL(<<"/", "transform", "/">> \o restoreSlashes(encodeURIComponent(c.key)), c.originUrl)

\* C1 (SpecGateway): whatever origin, key and parameters fetchFromOrigin is
\* called with, a fetch it dispatched goes to a URL of the configured
\* origin's scheme, host and port; and a call whose constructed URL has
\* another origin has dispatched nothing and thrown the 400.
C1_OriginPinned ==
    \A p \in Procs :
        /\ sent[p].outcome # "none" =>
            /\ originOf(sent[p].url) = originOf(call[p].originUrl)
            /\ originOf(constructedUrl(call[p])) = originOf(call[p].originUrl)
        /\ (pc[p] \in {"fetching", "gw_done"}
              /\ originOf(constructedUrl(call[p])) # originOf(call[p].originUrl)) =>
            /\ sent[p].outcome = "none"
            /\ gw[p].kind = "throw"
            /\ gw[p].status = 400

\* A fetch dispatched for a key that opens with two slashes, under the
\* origin that has a port
C1_Witness ==
    /\ sent[1].outcome = "pending"
    /\ call[1].key = <<"/", "/", "a">>
    /\ call[1].originUrl.port = "8080"
    /\ sent[1].url.host = <<"o">>

RECURSIVE valuesOf(_, _)
valuesOf(q, n) ==
    IF q = <<>> THEN <<>>
    ELSE (IF q[1].name = n THEN <<decodeValue(q[1].value)>> ELSE <<>>) \o valuesOf(Tail(q), n)

C8_TimeoutIs504 ==
    \A p \in Procs :
        /\ sent[p].outcome = "timeout" =>
            gw[p] = [kind |-> "throw", status |-> 504, message |-> "Gateway Timeout"]
        /\ sent[p].outcome = "failure" =>
            gw[p] = [kind |-> "throw", status |-> 502, message |-> "Bad Gateway"]
        /\ sent[p].outcome = "response" => gw[p].kind = "return"
        /\ gw[p].kind = "throw" => gw[p].status \in {400, 502, 504}

\* The time bound has expired on a dispatched fetch and the 504 is thrown
C8_Witness ==
    /\ sent[1].outcome = "timeout"
    /\ gw[1].kind = "throw"
    /\ gw[1].status = 504

\* Whether p's log holds the event e
logged(p, e) == \E i \in 1..Len(log[p]) : log[p][i] = e

\* C3 (Spec): a GET whose cache lookup failed is handled as a miss: it goes
\* on to the origin fetch and is answered with what fetchFromOrigin gave.
C3_LookupFailureIsMiss ==
    \A p \in Procs :
        (logged(p, "reject") /\ pc[p] = "done") =>
            /\ sent[p].outcome # "none"
            /\ resp[p].kind \in {"relay", "throw"}

\* The ContentKey invariants: not empty, only [a-zA-Z0-9-_/.], no "..", no
\* leading "/", no "//"
ContentKey(k) ==
    /\ k # <<>>
    /\ \A i \in 1..Len(k) : k[i] \in Lower \cup Upper \cup Digit \cup {"-", "_", "/", "."}
    /\ k[1] # "/"
    /\ \A i \in 1..(Len(k) - 1) : ~(k[i] = "." /\ k[i + 1] = ".")
    /\ \A i \in 1..(Len(k) - 1) : ~(k[i] = "/" /\ k[i + 1] = "/")

\* What follows the mount prefix in p's path
keyOf(p) == Tail(req[p].path)

\* C4 (SpecHandler): a GET or PUT whose key is absent or no ContentKey is
\* answered 400 with the fixed message, whatever its declared length, and
\* has made no cache lookup, no origin fetch, no body read and no write to
\* either store.
C4_InvalidKeyIs400 ==
    \A p \in Procs :
        (req[p].method \in {"GET", "PUT"} /\ pc[p] # "start" /\ ~ContentKey(keyOf(p))) =>
            /\ pc[p] = "done"
            /\ resp[p].kind = "json"
            /\ resp[p].status = 400
            /\ resp[p].body = InvalidKeyFormat
            /\ log[p] = <<"return">>
            /\ looked[p] = NoKey
            /\ call[p] = NoCall
            /\ sent[p].outcome = "none"
            /\ wb[p].state = "none"
            /\ DOMAIN cache = {}
            /\ DOMAIN bucket = {}

\* A PUT of the key ".." that declares 20000000 bytes, answered 400
C4_Witness ==
    /\ req[1].method = "PUT"
    /\ keyOf(1) = <<".", ".">>
    /\ req[1].contentLength = <<"2", "0", "0", "0", "0", "0", "0", "0">>
    /\ pc[1] = "done"
    /\ resp[1].status = 400

\* C5 (SpecHandler): a request whose key is empty, holds "..", opens with
\* "/", holds "//" or holds a character outside [a-zA-Z0-9-_/.] is rejected;
\* and every key that reached the cache, the origin gateway or the object
\* store is a ContentKey.
C5_OnlyContentKeysPass ==
    /\ \A p \in Procs :
        /\ (/\ req[p].method \in {"GET", "PUT"}
            /\ pc[p] # "start"
            /\ \/ keyOf(p) = <<>>
               \/ includes(keyOf(p), <<".", ".">>)
               \/ startsWith(keyOf(p), <<"/">>)
               \/ includes(keyOf(p), <<"/", "/">>)
               \/ \E i \in 1..Len(keyOf(p)) :
                    keyOf(p)[i] \notin Lower \cup Upper \cup Digit \cup {"-", "_", "/", "."})
            => (resp[p].kind = "json" /\ resp[p].status = 400 /\ log[p] = <<"return">>)
        /\ (looked[p] # NoKey \/ call[p] # NoCall \/ logged(p, "store.put")
                \/ logged(p, "req.arrayBuffer"))
            => ContentKey(keyOf(p))
        /\ call[p] # NoCall => ContentKey(call[p].key)
    /\ \A k \in DOMAIN bucket : ContentKey(k)
    /\ \A k \in DOMAIN cache : ContentKey(Tail(k.path))

\* An object stored under a key with a dot and a slash, and none other
C5_Witness ==
    /\ DOMAIN bucket = {<<"a", "/", ".">>}
    /\ pc[1] = "done"
    /\ resp[1].status = 201

\* The response r with the X-Cache marker m in place of any it had
marked(r, m) ==
    [kind |-> "relay", status |-> r.status, statusText |-> r.statusText,
     headers |-> [n \in DOMAIN r.headers \cup {"x-cache"} |->
                    IF n = "x-cache" THEN <<m>> ELSE r.headers[n]],
     body |-> r.body]

\* A Cache-Control value (lower-cased) holds a max-age directive whose value
\* is zero: max-age at the start of a word, "=" with optional blanks around
\* it, and a whole number of zeros only.
zeroMaxAge(v) ==
    \E i \in 1..Len(v) : \E j \in (i + 1)..Len(v) : \E k \in (j + 1)..Len(v) :
      \E m \in k..Len(v) :
        /\ v[i] = "max-age"
        /\ i > 1 => v[i - 1] \in {"=", " "}
        /\ \A x \in (i + 1)..(j - 1) : v[x] = " "
        /\ v[j] = "="
        /\ \A x \in (j + 1)..(k - 1) : v[x] = " "
        /\ \A x \in k..m : v[x] = "0"
        /\ m < Len(v) => v[m + 1] \notin {"0", "6"}

matchesZero(v) ==
    \E i \in 1..Len(v) : \E k \in (i + 2)..Len(v) :
        /\ v[i] = "max-age"
        /\ i > 1 => v[i - 1] \in {"=", " "}
        /\ v[k] = "0"
        /\ k < Len(v) => v[k + 1] \in {"=", " "}
        /\ \E j \in (i + 1)..(k - 1) :
            /\ v[j] = "="
            /\ \A x \in ((i + 1)..(k - 1)) \ {j} : v[x] = " "

C7_WriteBackNeverShows ==
    \A p \in Procs :
        wb[p].state # "none" =>
            /\ pc[p] = "done"
            /\ gw[p].kind = "return"
            /\ resp[p] = marked(gw[p].response, "MISS")
            /\ log[p][Len(log[p])] = "return"

\* A write-back has failed and the request is answered with the image
C7_Witness ==
    /\ wb[1].state = "failed"
    /\ resp[1].kind = "relay"
    /\ resp[1].status = 200
    /\ resp[1].body = <<"img1">>
    /\ wb[2].state = "stored"

\* C9 (Spec): a response answered from a cache entry is that entry with
\* X-Cache: HIT, a response relayed from the origin is the origin's with
\* X-Cache: MISS, whatever X-Cache the entry or the origin carried and
\* whatever the origin's status.
C9_MarkerOnly ==
    [][\A p \in Procs :
        /\ (pc[p] = "lookup" /\ pc'[p] = "done" /\ logged(p, "hit")') =>
            resp'[p] = marked(cache[looked[p]], "HIT")
        /\ (pc[p] = "gw_done" /\ pc'[p] = "done" /\ gw[p].kind = "return") =>
            resp'[p] = marked(gw[p].response, "MISS")]_vars

\* One request answered MISS with the origin's response, another answered
\* HIT from the entry stored for it, which carried an X-Cache of its own
C9_Witness ==
    \E p \in Procs : \E q \in Procs :
        /\ resp[p].kind = "relay"
        /\ resp[p].status = 200
        /\ resp[p].body = <<"img1">>
        /\ resp[p].headers["x-cache"] = <<"MISS">>
        /\ resp[q].kind = "relay"
        /\ resp[q].body = <<"img1">>
        /\ resp[q].headers["x-cache"] = <<"HIT">>
        /\ logged(q, "hit")

\* C10 (Spec): a GET that found a cache entry is answered from it and has
\* called neither fetchFromOrigin nor putCache.
C10_HitStopsThere ==
    \A p \in Procs :
        logged(p, "hit") =>
            /\ pc[p] = "done"
            /\ resp[p].kind = "relay"
            /\ log[p] = <<"cache.match", "hit", "return">>
            /\ call[p] = NoCall
            /\ sent[p].outcome = "none"
            /\ gw[p].kind = "none"
            /\ wb[p].state = "none"

\* A request answered from the entry another request's write-back stored
C10_Witness ==
    /\ logged(2, "hit")
    /\ pc[2] = "done"
    /\ wb[1].state = "stored"
    /\ resp[2].headers["x-cache"] = <<"HIT">>

\* The number a string of digits writes
declared(p) == parseDigits(req[p].contentLength, 0)

\* C11 (SpecHandler): a PUT with a valid key that declares more than
\* 10485760 bytes is answered 413 without reading the body or writing the
\* object store; one that declares exactly 10485760 goes on to read its body.
C11_DeclaredOverCeilingIs413 ==
    \A p \in Procs :
        (/\ req[p].method = "PUT"
         /\ pc[p] # "start"
         /\ ContentKey(keyOf(p))
         /\ req[p].contentLength # NULL) =>
            /\ declared(p) > 10 * 1024 * 1024 =>
                /\ pc[p] = "done"
                /\ resp[p] = json(413, FileTooLarge)
                /\ log[p] = <<"return">>
                /\ DOMAIN bucket = {}
            /\ declared(p) = 10 * 1024 * 1024 => logged(p, "req.arrayBuffer")

\* A PUT of a valid key that declares one byte more than the ceiling,
\* answered 413
C11_Witness ==
    /\ req[1].method = "PUT"
    /\ keyOf(1) = <<"a", "/", "a">>
    /\ req[1].contentLength = OverCeiling
    /\ req[1].body = PngBody
    /\ pc[1] = "done"
    /\ resp[1].status = 413

\* C12 (SpecHandler): IMAGE_STORE.put is called only for a valid key, a body
\* of at most 10485760 bytes (whatever length was declared) and a recognised
\* signature; the object it stores is the body under the key with the
\* sniffed type, never the declared one, and the answer is then 201 with
\* the key.  A PUT answered 400, 413 or 415 has stored nothing.
C12_StorePutGuarded ==
    \A p \in Procs :
        req[p].method = "PUT" =>
            /\ logged(p, "store.put") =>
                /\ ContentKey(keyOf(p))
                /\ req[p].body.byteLength <= 10 * 1024 * 1024
                /\ detectMimeType(req[p].body) # "throw"
                /\ log[p][1] = "req.arrayBuffer"
            /\ (pc[p] = "done" /\ resp[p].kind = "json" /\ resp[p].status = 201) =>
                /\ logged(p, "store.put")
                /\ DOMAIN bucket = {keyOf(p)}
                /\ bucket[keyOf(p)].body = req[p].body
                /\ bucket[keyOf(p)].contentType = detectMimeType(req[p].body)
                /\ resp[p].body = <<"{success:true,key:">> \o keyOf(p) \o <<"}">>
            /\ (pc[p] = "done" /\ resp[p].kind = "json" /\ resp[p].status \in {400, 413, 415}) =>
                DOMAIN bucket = {}
            /\ DOMAIN bucket # {} =>
                (pc[p] = "done" /\ resp[p].kind = "json" /\ resp[p].status = 201)

\* A PNG of exactly the ceiling, declared as 16 bytes of image/gif, stored
\* as image/png
C12_Witness ==
    /\ req[1].method = "PUT"
    /\ req[1].body = FullPngBody
    /\ req[1].contentLength = <<"1", "6">>
    /\ req[1].contentType = <<"image/gif">>
    /\ pc[1] = "done"
    /\ resp[1].status = 201
    /\ DOMAIN bucket = {<<"a", ".", "a">>}
    /\ bucket[<<"a", ".", "a">>].contentType = "image/png"

\* C13 (SpecHandler): a PUT is answered 415 only when detectMimeType threw
\* on its body; a rejection of the body read or of the object-store write,
\* whatever its message, is answered 500 with the generic body.
C13_Only415FromSniffer ==
    \A p \in Procs :
        (req[p].method = "PUT" /\ pc[p] = "done" /\ resp[p].kind = "json") =>
            /\ resp[p].status = 415 =>
                /\ ~logged(p, "arrayBuffer.reject")
                /\ ~logged(p, "store.reject")
                /\ detectMimeType(req[p].body) = "throw"
            /\ (logged(p, "arrayBuffer.reject") \/ logged(p, "store.reject")) =>
                resp[p] = json(500, InternalServerError)

\* The bytes `pattern` stand at offset `at` (0-indexed) of `bytes`
signatureAt(bytes, at, pattern) ==
    /\ Len(bytes) >= at + Len(pattern)
    /\ \A i \in 1..Len(pattern) : bytes[at + i] = pattern[i]

\* The signature table, read top to bottom: the type of the first row the
\* bytes match, "none" when they match no row
tableType(bytes) ==
    IF signatureAt(bytes, 0, <<255, 216, 255>>) THEN "image/jpeg"
    ELSE IF signatureAt(bytes, 0, <<137, 80, 78, 71>>) THEN "image/png"
    ELSE IF signatureAt(bytes, 0, <<71, 73, 70>>) THEN "image/gif"
    ELSE IF signatureAt(bytes, 8, <<87, 69, 66, 80>>) THEN "image/webp"
    ELSE IF /\ signatureAt(bytes, 4, <<102, 116, 121, 112>>)
            /\ \/ signatureAt(bytes, 8, <<97, 118, 105, 102>>)
               \/ signatureAt(bytes, 8, <<97, 118, 105, 115>>)
    THEN "image/avif"
    ELSE "none"

\* p's body was read and its store write, if any, did not fail
sniffed(p) ==
    /\ req[p].method = "PUT"
    /\ pc[p] \in {"storing", "done"}
    /\ logged(p, "req.arrayBuffer")
    /\ ~logged(p, "arrayBuffer.reject")
    /\ ~logged(p, "store.reject")

\* C14 (SpecSniffer): detectMimeType returns the type of the first row of
\* the signature table that the buffer's first 16 bytes match, and throws
\* the unsupported-type error exactly when they match no row.
C14_SnifferFollowsTable ==
    \A p \in Procs :
        sniffed(p) =>
            LET first16 == req[p].body.head
            IN  /\ Len(first16) <= 16
                /\ tableType(first16) = "none" <=>
                      (pc[p] = "done" /\ resp[p] = json(415, UnsupportedMediaType))
                /\ tableType(first16) # "none" <=> logged(p, "store.put")
                /\ (pc[p] = "done" /\ resp[p].kind = "json" /\ resp[p].status = 201) =>
                      /\ <<"a">> \in DOMAIN bucket
                      /\ bucket[<<"a">>].contentType = tableType(first16)

\* A body that opens as a JPEG and carries the WebP brand, stored as a JPEG
C14_Witness ==
    /\ pc[1] = "done"
    /\ req[1].body.byteLength = 16
    /\ signatureAt(req[1].body.head, 0, <<255, 216, 255>>)
    /\ signatureAt(req[1].body.head, 8, <<87, 69, 66, 80>>)
    /\ <<"a">> \in DOMAIN bucket
    /\ bucket[<<"a">>].contentType = "image/jpeg"

\* C18 (SpecSniffer): a PUT whose body is shorter than 16 bytes is answered
\* 415 once its body is read, and nothing is stored for it.
C18_ShortBodyIs415 ==
    \A p \in Procs :
        (sniffed(p) /\ req[p].body.byteLength < 16) =>
            /\ pc[p] = "done"
            /\ resp[p] = json(415, UnsupportedMediaType)
            /\ ~logged(p, "store.put")
            /\ DOMAIN bucket = {}

\* The segments of the key k: what its slashes separate, as written
RECURSIVE segments(_, _)
segments(k, seg) ==
    IF k = <<>> THEN <<seg>>
    ELSE IF k[1] = "/" THEN <<seg>> \o segments(Tail(k), <<>>)
    ELSE segments(Tail(k), Append(seg, k[1]))

\* C15 (SpecHandler): the request a GET of a valid key dispatches to the
\* origin is a GET of the configured origin whose path is /transform/
\* followed by the key, segment for segment; and with the cache empty the
\* origin's response is relayed with X-Cache: MISS.
C15_OriginGetsTheKey ==
    \A p \in Procs :
        (req[p].method = "GET" /\ sent[p].outcome # "none") =>
            /\ ContentKey(keyOf(p))
            /\ sent[p].method = "GET"
            /\ originOf(sent[p].url) = originOf(ORIGIN_URL)
            /\ sent[p].url.path = <<<<"transform">>>> \o segments(keyOf(p), <<>>)
            /\ (pc[p] = "done" /\ gw[p].kind = "return") =>
                /\ resp[p].kind = "relay"
                /\ resp[p].headers["x-cache"] = <<"MISS">>

\* The requests that found no entry and whose fetchFromOrigin ran up to its
\* fetch, and the fetches dispatched
missed == {p \in Procs : logged(p, "miss") /\ pc[p] \in {"fetching", "gw_done", "done"}}
fetches == {p \in Procs : sent[p].outcome # "none"}

\* C16 (Spec): every GET that found no entry dispatches a fetch of its own,
\* whatever fetches of other requests for the same key are pending: there
\* are as many fetches as misses, a request about to call the origin never
\* waits, and the response it relays is the one its own fetch resolved with.
C16_NoSingleFlight ==
    /\ missed = fetches
    /\ \A p \in Procs :
        /\ pc[p] = "gw_call" => ENABLED GatewayCall(p)
        /\ p \in missed =>
            /\ logged(p, "fetch")
            /\ sent[p].method = "GET"
            /\ sent[p].url.search = serialize(searchParams(urlOf(req[p])))
        /\ gw[p].kind = "return" => sent[p].outcome = "response"
        /\ sent[p].outcome = "pending" => pc[p] = "fetching"

\* Two requests of the same URL that both missed, each with a fetch of its
\* own pending
C16_Witness ==
    /\ req[1] = req[2]
    /\ looked[1] = looked[2]
    /\ logged(1, "miss")
    /\ logged(2, "miss")
    /\ sent[1].outcome = "pending"
    /\ sent[2].outcome = "pending"
    /\ DOMAIN cache = {}

\* The place of the first e in p's log, 0 when it has none
firstAt(p, e) ==
    IF logged(p, e) THEN CHOOSE i \in 1..Len(log[p]) :
                            log[p][i] = e /\ \A j \in 1..(i - 1) : log[p][j] # e
    ELSE 0

\* C17 (Spec): the write of a miss to the cache store is neither started
\* nor finished before the handler has returned the response.
C17_WriteAfterReturn ==
    \A p \in Procs :
        /\ logged(p, "cache.put") =>
            (logged(p, "return") /\ firstAt(p, "return") < firstAt(p, "cache.put"))
        /\ wb[p].state \in {"stored", "failed"} => pc[p] = "done"

\* C17, amended (Spec): putCache and its cache.put are called inside the
\* handler, in the same step that builds the response and directly before
\* the handler returns it; the handler does not wait for them.  The call of
\* cache.put settles, and the store changes, only after the handler has
\* returned, and the response is not touched by it.
C17_WriteBackDetached ==
    [][/\ \A p \in Procs :
            /\ (wb[p].state = "none" /\ wb'[p].state # "none") =>
                /\ pc[p] = "gw_done"
                /\ pc'[p] = "done"
                /\ resp'[p] = marked(gw[p].response, "MISS")
                /\ log'[p] = log[p] \o (IF wb'[p].state = "putting"
                                        THEN <<"putCache", "cache.put", "return">>
                                        ELSE <<"putCache", "return">>)
            /\ (wb[p].state # "none" /\ wb'[p].state # wb[p].state) =>
                /\ wb[p].state = "putting"
                /\ wb'[p].state \in {"stored", "failed"}
                /\ pc[p] = "done"
                /\ log[p][Len(log[p])] = "return"
                /\ resp'[p] = resp[p]
                /\ log'[p] = log[p]
       /\ cache' # cache =>
            \E q \in Procs : /\ wb[q].state = "putting"
                             /\ wb'[q].state = "stored"
                             /\ pc[q] = "done"]_vars

\* A write-back that has stored its entry, for a request whose handler
\* called cache.put and then returned
C17_Witness ==
    /\ wb[1].state = "stored"
    /\ log[1] = <<"cache.match", "miss", "fetch", "putCache", "cache.put", "return">>
    /\ looked[1] \in DOMAIN cache

\* The response r carries a Cache-Control value that permits storing
permits(r) ==
    /\ "cache-control" \in DOMAIN r.headers
    /\ LET v == toLowerCase(r.headers["cache-control"])
       IN  /\ v # <<>>
           /\ \A i \in 1..Len(v) : v[i] \notin {"no-store", "private"}
           /\ ~matchesZero(v)

\* C19 (Spec): every entry of the cache store is the 2xx, permitting origin
\* response of a request with that canonical key, written by that request;
\* every HIT is, but for its marker, the origin response of another request
\* with the same canonical key, never an origin error; and a write under a
\* key replaces the entry the key had.
C19_CacheSound ==
    /\ [](/\ \A k \in DOMAIN cache :
                \E p \in Procs :
                    /\ wb[p].state = "stored"
                    /\ wb[p].key = k
                    /\ k = [host |-> HOST, path |-> req[p].path,
                            search |-> serialize(sortEntries(searchParams(urlOf(req[p]))))]
                    /\ gw[p].kind = "return"
                    /\ cache[k] = gw[p].response
                    /\ cache[k].status \in 200..299
                    /\ permits(cache[k])
          /\ \A p \in Procs :
                logged(p, "hit") =>
                    /\ resp[p].kind = "relay"
                    /\ resp[p].status \in 200..299
                    /\ \E q \in Procs \ {p} :
                        /\ gw[q].kind = "return"
                        /\ looked[q] = looked[p]
                        /\ resp[p] = marked(gw[q].response, "HIT"))
    /\ [][\A p \in Procs :
            (wb[p].state = "putting" /\ wb'[p].state = "stored") =>
                /\ wb[p].key \in DOMAIN cache'
                /\ cache'[wb[p].key] = gw[p].response
                /\ \A k \in DOMAIN cache \ {wb[p].key} :
                    k \in DOMAIN cache' /\ cache'[k] = cache[k]]_vars

\* Two requests of one canonical key have both written; the store holds the
\* later response, not the earlier
C19_Witness ==
    /\ wb[1].state = "stored"
    /\ wb[2].state = "stored"
    /\ looked[1] = looked[2]
    /\ gw[1].response.body = <<"img1">>
    /\ gw[2].response.body = <<"img2">>
    /\ cache[looked[1]].body = <<"img2">>

\* C20 (SpecLive): a GET that missed the cache is eventually done, with the
\* relayed origin response or a 400, 502 or 504, also when the origin never
\* answers; and a request that is done stays done with the outcome it has.
C20_MissCompletes ==
    /\ \A p \in Procs :
        logged(p, "miss") ~>
            /\ pc[p] = "done"
            /\ \/ gw[p].kind = "return" /\ resp[p] = marked(gw[p].response, "MISS")
               \/ /\ gw[p].kind = "throw"
                  /\ resp[p].kind = "throw"
                  /\ resp[p].status \in {400, 502, 504}
    /\ [][\A p \in Procs :
            pc[p] = "done" => (pc'[p] = "done" /\ resp'[p] = resp[p])]_vars

\* A request whose fetch the timer ended, done with 504, while the other
\* was answered by the origin
C20_Witness ==
    /\ sent[1].outcome = "timeout"
    /\ pc[1] = "done"
    /\ resp[1].kind = "throw"
    /\ resp[1].status = 504
    /\ sent[2].outcome = "response"
    /\ pc[2] = "done"

=============================================================================
